---- MODULE Spec2Model ----
(***************************************************************************)
(* A model of consul/consul.go of marathon-consul: the retry wrapper over  *)
(* the agent pool, the datacenter fan-out of the catalog reads, and the    *)
(* targeted register / deregister operations.                              *)
(***************************************************************************)
EXTENDS Naturals, Sequences, FiniteSets, TLC

(***************************************************************************)
(* Bounds of the model.                                                    *)
(***************************************************************************)
\* Width of the unsigned counters (uint32 in the code), scaled down so that
\* the largest representable value is reached.
UintBits == 2
\* Largest RequestRetries / AgentFailuresTolerance below the largest
\* representable value that Init draws.
MaxSetting == 2
\* Provider invocations of one retry-wrapper call that are explored beyond
\* one full turn of the attempt counter.
ExtraCalls == 2
\* Largest RequestRetries / AgentFailuresTolerance drawn where all operations
\* run.
MaxFew == 1

UintMod == 2 ^ UintBits
UintMax == UintMod - 1
MaxCalls == UintMod + ExtraCalls
Settings == (0 .. MaxSetting) \cup {UintMax}

(***************************************************************************)
(* The world: agent addresses, datacenters, tasks.                         *)
(***************************************************************************)
Procs == {1, 2}
Addrs == {"10.0.0.1", "10.0.0.2", "10.0.0.3"}
\* An Agent record is named by its address and a slot; slot 0 is "no record".
Slots == {1, 2}
NoAgent == <<"", 0>>

DcOf(addr) == IF addr = "10.0.0.3" THEN "dc2" ELSE "dc1"
Dcs == {"dc1", "dc2"}
\* The answers datacenter discovery may give through the agent at addr, in
\* the order it gives them: the agent's own datacenter first.
DcListsOf(addr) ==
  LET own == DcOf(addr)
  IN {<<own>>} \cup {<<own, dc>> : dc \in Dcs \ {own}}
DcLists == UNION {DcListsOf(a) : a \in Addrs}

\* config.Tag
Tag == "marathon"

RECURSIVE SetToSeq(_)
SetToSeq(S) ==
  IF S = {} THEN <<>>
  ELSE LET e == CHOOSE e \in S : TRUE IN <<e>> \o SetToSeq(S \ {e})

RECURSIVE Flatten(_)
Flatten(ss) == IF ss = <<>> THEN <<>> ELSE Head(ss) \o Flatten(Tail(ss))

Range(s) == {s[i] : i \in 1 .. Len(s)}

Perms(S) == {s \in [1 .. Cardinality(S) -> S] : Range(s) = S}

\* contains(slice, search)
contains(slice, search) == \E i \in 1 .. Len(slice) : slice[i] = search

(***************************************************************************)
(* The catalog (a black box to the program): the set of CatalogService     *)
(* entries it holds, and the answers its read operations give.             *)
(***************************************************************************)
\* service.MarathonTaskTag(taskID)
MarathonTaskTag(taskID) == "marathon-task:" \o taskID

\* agent.Catalog().Service(name, tag, q): the entries of that name carrying
\* the tag in q's datacenter.
CatalogService(cat, name, tag, dc) ==
  SetToSeq({e \in cat : /\ e.ServiceName = name
                        /\ contains(e.ServiceTags, tag)
                        /\ DcOf(e.Address) = dc})

\* agent.Catalog().Services(q): service name -> tags, for q's datacenter.
CatalogServicesNames(cat, dc) ==
  {e.ServiceName : e \in {c \in cat : DcOf(c.Address) = dc}}

CatalogServicesTags(cat, dc, name) ==
  Flatten(SetToSeq({e.ServiceTags :
     e \in {c \in cat : DcOf(c.Address) = dc /\ c.ServiceName = name}}))

consulServiceToService(consulService) ==
  [ID |-> consulService.ServiceID,
   Name |-> consulService.ServiceName,
   Tags |-> consulService.ServiceTags,
   RegisteringAgentAddress |-> consulService.Address]

consulServicesToServices(consulServices) ==
  [i \in 1 .. Len(consulServices) |-> consulServiceToService(consulServices[i])]

(***************************************************************************)
(* The providers.  A provider run is a sequence of catalog reads through   *)
(* one agent; `queried' lists the reads it issued, in order.  The inputs   *)
(* are the black box's answers: dcs, the list discovery returns; failAt,   *)
(* the number of the read that fails (0: none does); ord, the order in     *)
(* which the name -> tags map is iterated.                                 *)
(***************************************************************************)
Failed(queried) == [err |-> TRUE, services |-> <<>>, queried |-> queried]

\* Discovery whose queries come out in the reverse of the discovered order
dcAwareQueriesReversed(dcs, failAt) ==
  IF failAt = 1
  THEN [err |-> TRUE, queries |-> <<>>, queried |-> <<<<"Datacenters">>>>]
  ELSE [err |-> FALSE, queries |-> [i \in 1 .. Len(dcs) |-> dcs[Len(dcs) + 1 - i]],
        queried |-> <<<<"Datacenters">>>>]

dcAwareQueriesForAllDCs(dcs, failAt) ==
  IF failAt = 1
  THEN [err |-> TRUE, queries |-> <<>>, queried |-> <<<<"Datacenters">>>>]
  ELSE [err |-> FALSE, queries |-> dcs, queried |-> <<<<"Datacenters">>>>]

RECURSIVE ServiceLoop(_, _, _, _, _, _, _)
\* the loop of getServicesUsingAgent, from its i-th query on
ServiceLoop(name, cat, queries, i, failAt, allServices, queried) ==
  IF i > Len(queries)
  THEN [err |-> FALSE, services |-> allServices, queried |-> queried]
  ELSE LET read == <<"Service", name, Tag, queries[i]>>
       IN IF Len(queried) + 1 = failAt
          THEN Failed(Append(queried, read))
          ELSE ServiceLoop(name, cat, queries, i + 1, failAt,
                 allServices \o consulServicesToServices(
                                  CatalogService(cat, name, Tag, queries[i])),
                 Append(queried, read))

getServicesUsingAgent(name, cat, dcs, failAt) ==
  LET d == dcAwareQueriesForAllDCs(dcs, failAt)
  IN IF d.err THEN Failed(d.queried)
     ELSE ServiceLoop(name, cat, d.queries, 1, failAt, <<>>, d.queried)

RECURSIVE NamesLoop(_, _, _, _, _, _, _, _)
\* the inner loop over the name -> tags map of one datacenter
NamesLoop(tag, cat, dc, names, j, failAt, found, queried) ==
  IF j > Len(names)
  THEN [err |-> FALSE, services |-> found, queried |-> queried]
  ELSE IF contains(CatalogServicesTags(cat, dc, names[j]), tag)
       THEN LET read == <<"Service", names[j], tag, dc>>
            IN IF Len(queried) + 1 = failAt
               THEN Failed(Append(queried, read))
               ELSE NamesLoop(tag, cat, dc, names, j + 1, failAt,
                      found \o consulServicesToServices(
                                 CatalogService(cat, names[j], tag, dc)),
                      Append(queried, read))
       ELSE NamesLoop(tag, cat, dc, names, j + 1, failAt, found, queried)

RECURSIVE TaggedLoop(_, _, _, _, _, _, _, _)
\* the loop over the datacenters of getAllServices and findServicesByTaskID
TaggedLoop(tag, cat, queries, i, failAt, ord, found, queried) ==
  IF i > Len(queries)
  THEN [err |-> FALSE, services |-> found, queried |-> queried]
  ELSE LET read == <<"Services", queries[i]>>
       IN IF Len(queried) + 1 = failAt
          THEN Failed(Append(queried, read))
          ELSE LET present == CatalogServicesNames(cat, queries[i])
                   names == SelectSeq(ord, LAMBDA n : n \in present)
                   inner == NamesLoop(tag, cat, queries[i], names, 1, failAt,
                                      found, Append(queried, read))
               IN IF inner.err THEN inner
                  ELSE TaggedLoop(tag, cat, queries, i + 1, failAt, ord,
                                  inner.services, inner.queried)

getAllServices(cat, dcs, failAt, ord) ==
  LET d == dcAwareQueriesForAllDCs(dcs, failAt)
  IN IF d.err THEN Failed(d.queried)
     ELSE TaggedLoop(Tag, cat, d.queries, 1, failAt, ord, <<>>, d.queried)

\* A lookup by task that searches for the global tag instead of the task's
findServicesByGlobalTag(searchedTaskID, cat, dcs, failAt, ord) ==
  LET d == dcAwareQueriesForAllDCs(dcs, failAt)
  IN IF d.err THEN Failed(d.queried)
     ELSE TaggedLoop(Tag, cat, d.queries, 1, failAt, ord, <<>>, d.queried)

\* the provider closure of findServicesByTaskID
findServicesByTaskIDUsingAgent(searchedTaskID, cat, dcs, failAt, ord) ==
  LET d == dcAwareQueriesForAllDCs(dcs, failAt)
      searchedTag == MarathonTaskTag(searchedTaskID)
  IN IF d.err THEN Failed(d.queried)
     ELSE TaggedLoop(searchedTag, cat, d.queries, 1, failAt, ord, <<>>, d.queried)

(***************************************************************************)
(* Translation of a task and its app into service registrations.           *)
(***************************************************************************)
Digit(d) ==
  CASE d = 0 -> "0" [] d = 1 -> "1" [] d = 2 -> "2" [] d = 3 -> "3"
    [] d = 4 -> "4" [] d = 5 -> "5" [] d = 6 -> "6" [] d = 7 -> "7"
    [] d = 8 -> "8" [] d = 9 -> "9"

RECURSIVE Dec(_)
\* fmt's %d of a non-negative int
Dec(n) == IF n < 10 THEN Digit(n) ELSE Dec(n \div 10) \o Digit(n % 10)

\* utils.HostToIPv4(host)
HostToIPv4(host) ==
  CASE host = "host1" -> [err |-> FALSE, IP |-> "10.0.0.1"]
    [] host = "host2" -> [err |-> FALSE, IP |-> "10.0.0.2"]
    [] host = "host3" -> [err |-> FALSE, IP |-> "10.0.0.3"]
    [] OTHER -> [err |-> TRUE, IP |-> ""]

serviceID(task, name, port) == task.ID \o "_" \o name \o "_" \o Dec(port)

ToUpperChar(c) ==
  CASE c = "t" -> "T" [] c = "c" -> "C" [] c = "p" -> "P" [] c = "o" -> "O"
    [] c = "m" -> "M" [] c = "a" -> "A" [] c = "n" -> "N" [] c = "d" -> "D"
    [] c = "h" -> "H" [] OTHER -> c

\* strings.ToUpper, on a string given as the sequence of its characters
ToUpper(cs) == [i \in 1 .. Len(cs) |-> ToUpperChar(cs[i])]

RECURSIVE Split(_, _)
\* strings.Split(cs, sep): the pieces between the separators
Split(cs, sep) ==
  IF \A i \in 1 .. Len(cs) : cs[i] # sep THEN <<cs>>
  ELSE LET k == CHOOSE i \in 1 .. Len(cs) :
                   cs[i] = sep /\ \A j \in 1 .. i - 1 : cs[j] # sep
       IN <<SubSeq(cs, 1, k - 1)>> \o Split(SubSeq(cs, k + 1, Len(cs)), sep)

RECURSIVE TrimSpace(_)
TrimSpace(cs) ==
  IF cs = <<>> THEN cs
  ELSE IF Head(cs) = " " THEN TrimSpace(Tail(cs))
  ELSE IF cs[Len(cs)] = " " THEN TrimSpace(SubSeq(cs, 1, Len(cs) - 1))
  ELSE cs

RECURSIVE Join(_)
\* the string whose characters are cs
Join(cs) == IF cs = <<>> THEN "" ELSE Head(cs) \o Join(Tail(cs))

RECURSIVE IgnoredLoop(_, _)
IgnoredLoop(pieces, ignoredTypes) ==
  IF pieces = <<>> THEN ignoredTypes
  ELSE LET ignoredType == Join(TrimSpace(Head(pieces)))
       IN IgnoredLoop(Tail(pieces),
             IF ignoredType # "" THEN Append(ignoredTypes, ignoredType)
             ELSE ignoredTypes)

getIgnoredHealthCheckTypes(cfg) ==
  IgnoredLoop(Split(ToUpper(cfg.IgnoredHealthChecks), ","), <<>>)

\* url.ParseRequestURI(path): an absolute path or an absolute URL parses
ParseRequestURI(path) ==
  CASE path = "/health" -> [err |-> FALSE, Path |-> "/health"]
    [] path = "http://x/ping" -> [err |-> FALSE, Path |-> "/ping"]
    [] OTHER -> [err |-> TRUE, Path |-> ""]

\* strings.ToLower(check.Protocol), for the protocols that reach it
ToLowerProtocol(protocol) == IF protocol = "HTTPS" THEN "https" ELSE "http"

RECURSIVE ChecksLoop(_, _, _, _, _, _)
\* the loop of marathonToConsulChecks from its i-th health check on; an index
\* outside task.Ports is a run-time panic
ChecksLoop(task, healthChecks, serviceAddress, ignored, i, checks) ==
  IF i > Len(healthChecks) THEN [panic |-> FALSE, checks |-> checks]
  ELSE LET check == healthChecks[i] IN
    IF contains(ignored, check.Protocol)
    THEN ChecksLoop(task, healthChecks, serviceAddress, ignored, i + 1, checks)
    ELSE IF check.Port = 0 /\ ~(check.PortIndex + 1 \in 1 .. Len(task.Ports))
    THEN [panic |-> TRUE, checks |-> <<>>]
    ELSE
      LET port == IF check.Port # 0 THEN check.Port
                  ELSE task.Ports[check.PortIndex + 1]
          consulCheck == [Interval |-> Dec(check.IntervalSeconds) \o "s",
                          Timeout |-> Dec(check.TimeoutSeconds) \o "s",
                          Status |-> "passing",
                          HTTP |-> "", TCP |-> "", Script |-> ""]
          parsedURL == ParseRequestURI(check.Path)
          built ==
            CASE check.Protocol \in {"HTTP", "HTTPS"} ->
                   IF ~parsedURL.err
                   THEN <<[consulCheck EXCEPT !.HTTP =
                            ToLowerProtocol(check.Protocol) \o "://" \o
                            serviceAddress \o ":" \o Dec(port) \o parsedURL.Path]>>
                   ELSE <<>>
              [] check.Protocol = "TCP" ->
                   <<[consulCheck EXCEPT !.TCP =
                        serviceAddress \o ":" \o Dec(port)]>>
              [] check.Protocol = "COMMAND" ->
                   <<[consulCheck EXCEPT !.Script = check.Command]>>
              [] OTHER -> <<>>
      IN ChecksLoop(task, healthChecks, serviceAddress, ignored, i + 1,
                    checks \o built)

marathonToConsulChecks(cfg, task, healthChecks, serviceAddress) ==
  ChecksLoop(task, healthChecks, serviceAddress,
             getIgnoredHealthCheckTypes(cfg), 1, <<>>)

\* app.RegistrationIntents(task, separator): the app's derived list
RegistrationIntents(app, task) == app.Intents

\* A translation that loses the last registration intent
marathonTaskToConsulServicesButLast(cfg, task, app) ==
  LET resolved == HostToIPv4(task.Host)
      serviceAddress == resolved.IP
      checks == marathonToConsulChecks(cfg, task, app.HealthChecks, serviceAddress)
      intents == RegistrationIntents(app, task)
  IN IF resolved.err THEN [err |-> "AddressResolutionError", services |-> <<>>]
     ELSE IF checks.panic THEN [err |-> "panic", services |-> <<>>]
     ELSE [err |-> "",
           services |->
             [i \in 1 .. Len(intents) - 1 |->
                [ID |-> serviceID(task, intents[i].Name, intents[i].Port),
                 Name |-> intents[i].Name,
                 Port |-> intents[i].Port,
                 Address |-> serviceAddress,
                 Tags |-> <<Tag>> \o intents[i].Tags
                            \o <<MarathonTaskTag(task.ID)>>,
                 Checks |-> checks.checks]]]

marathonTaskToConsulServices(cfg, task, app) ==
  LET resolved == HostToIPv4(task.Host)
      serviceAddress == resolved.IP
      checks == marathonToConsulChecks(cfg, task, app.HealthChecks, serviceAddress)
      intents == RegistrationIntents(app, task)
  IN IF resolved.err THEN [err |-> "AddressResolutionError", services |-> <<>>]
     ELSE IF checks.panic THEN [err |-> "panic", services |-> <<>>]
     ELSE [err |-> "",
           services |->
             [i \in 1 .. Len(intents) |->
                [ID |-> serviceID(task, intents[i].Name, intents[i].Port),
                 Name |-> intents[i].Name,
                 Port |-> intents[i].Port,
                 Address |-> serviceAddress,
                 Tags |-> <<Tag>> \o intents[i].Tags
                            \o <<MarathonTaskTag(task.ID)>>,
                 Checks |-> checks.checks]]]

(***************************************************************************)
(* The inputs the operations are called with.                              *)
(***************************************************************************)
Names == {"b", "a_b"}
TaskIDs == {"t", "t_a"}
Tasks ==
  {[ID |-> "t", Host |-> "host1", Ports |-> <<8080>>],
   [ID |-> "t_a", Host |-> "host3", Ports |-> <<>>],
   [ID |-> "t", Host |-> "nohost", Ports |-> <<8080>>]}
IntentB == [Name |-> "b", Port |-> 80, Tags |-> <<>>]
IntentAB == [Name |-> "a_b", Port |-> 80, Tags |-> <<"x">>]
TcpCheck ==
  [Protocol |-> "TCP", Path |-> "", Port |-> 0, PortIndex |-> 0,
   IntervalSeconds |-> 10, TimeoutSeconds |-> 5, Command |-> ""]
Apps ==
  {[Intents |-> <<>>, HealthChecks |-> <<>>],
   [Intents |-> <<IntentB>>, HealthChecks |-> <<>>],
   [Intents |-> <<IntentB, IntentAB>>, HealthChecks |-> <<TcpCheck>>]}

(***************************************************************************)
(* State.                                                                  *)
(***************************************************************************)
VARIABLES
  config,     \* Consul.config
  agents,     \* Consul.agents: address -> slot of its Agent record, 0 if none
  failures,   \* the failure counter of each Agent record
  catalog,    \* the entries the catalog holds
  pc,         \* where each caller stands
  op,         \* the operation each caller runs
  retry,      \* the wrapper's attempt counter
  agent,      \* the Agent record the wrapper holds
  incd,       \* the wrapper's local `failures' (IncFailures' return value)
  services,   \* the provider's services; the batch of a register / deregister
  idx,        \* position in the batch
  errs,       \* registerErrors / deregisterErrors
  result,     \* what the operation returned
  calls,      \* history: provider invocations of the current wrapper call
  sent,       \* history: catalog mutations the current operation submitted
  before,     \* history: pool and catalog as DeregisterByTask found them
  probe,      \* input and output of a pure function under check
  streak      \* history: failed invocations against each agent since the last
              \* successful one against it

vars == <<config, agents, failures, catalog, pc, op, retry, agent, incd,
          services, idx, errs, result, calls, sent, before, probe, streak>>
globals == <<config, agents, failures, catalog>>
locals == <<pc, op, retry, agent, incd, services, idx, errs, result, calls, sent,
           before, streak>>

NoOp == [kind |-> "", arg |-> "", intents |-> 0]
\* What `before' holds while no snapshot is kept
NoSnapshot ==
  [agents |-> [a \in Addrs |-> 0],
   failures |-> [a \in Addrs |-> [s \in Slots |-> 0]],
   catalog |-> {}]
NoResult == [err |-> "", errs |-> <<>>, services |-> <<>>, by |-> ""]

(***************************************************************************)
(* The agent pool (Agents), with the Agent records' counters.              *)
(***************************************************************************)
PoolAddrs(ag) == {a \in Addrs : ag[a] # 0}

\* A record nobody refers to any more is garbage: its counter is forgotten.
Collect(ag, held, f) ==
  [a \in Addrs |-> [s \in Slots |->
     IF ag[a] = s \/ \E q \in Procs : held[q] = <<a, s>> THEN f[a][s] ELSE 0]]

\* Agent.IncFailures: the counter after an atomic add of one
IncFailuresValue(n) == (n + 1) % UintMod

\* the slot a record created for address a takes
FreshSlot(a, held) == CHOOSE s \in Slots :
  /\ \A q \in Procs : held[q] # <<a, s>>
  /\ \A t \in Slots : t < s => \E q \in Procs : held[q] = <<a, t>>

\* Agents.GetAgent(address): the pool after it, creating the record if the
\* address is unknown and the client can be built (connects)
GetAgentPool(ag, held, a, connects) ==
  IF ag[a] # 0 \/ ~connects THEN ag
  ELSE [ag EXCEPT ![a] = FreshSlot(a, held)]

GetAgentErr(ag, a, connects) == ag[a] = 0 /\ ~connects

\* Agents.RemoveAgent(address)
RemoveAgentPool(ag, a) == [ag EXCEPT ![a] = 0]

\* utils.MergeErrorsOrNil(errors, description)
MergeErrorsOrNil(errors) ==
  IF errors = <<>> THEN [NoResult EXCEPT !.err = ""]
  ELSE [NoResult EXCEPT !.err = "Aggregate", !.errs = errors]

\* agent.Agent().ServiceRegister(service) through the agent at address a
ServiceRegister(cat, a, service) ==
  {e \in cat : ~(e.ServiceID = service.ID /\ e.Address = a)} \cup
  {[ServiceID |-> service.ID, ServiceName |-> service.Name,
    ServiceTags |-> service.Tags, Address |-> a]}

\* agent.Agent().ServiceDeregister(id) through the agent at address a
ServiceDeregister(cat, a, id) ==
  {e \in cat : ~(e.ServiceID = id /\ e.Address = a)}

(***************************************************************************)
(* Initial state: the pool built from a seed list, no caller running.      *)
(***************************************************************************)
IgnoredConfigs == {<<>>}
StaleService ==
  [ID |-> "t_b_80", Name |-> "b", Tags |-> <<Tag>>,
   RegisteringAgentAddress |-> "10.0.0.2"]

RECURSIVE RegisterAll(_, _, _)
RegisterAll(cat, a, regs) ==
  IF regs = <<>> THEN cat
  ELSE RegisterAll(ServiceRegister(cat, a, Head(regs)), a, Tail(regs))

\* The catalog after task "t" was registered with two intents through
\* 10.0.0.1 and task "t_a" with one through 10.0.0.3.
SampleCatalog ==
  LET cfg == [RequestRetries |-> 0, AgentFailuresTolerance |-> 0,
              IgnoredHealthChecks |-> <<>>]
      t1 == [ID |-> "t", Host |-> "host1", Ports |-> <<8080>>]
      t2 == [ID |-> "t_a", Host |-> "host3", Ports |-> <<>>]
      r1 == marathonTaskToConsulServices(cfg, t1,
              [Intents |-> <<IntentB, IntentAB>>, HealthChecks |-> <<>>])
      r2 == marathonTaskToConsulServices(cfg, t2,
              [Intents |-> <<IntentB>>, HealthChecks |-> <<>>])
  IN RegisterAll(RegisterAll({}, "10.0.0.1", r1.services), "10.0.0.3", r2.services)

InitLocals ==
  /\ pc = [p \in Procs |-> "idle"]
  /\ op = [p \in Procs |-> NoOp]
  /\ retry = [p \in Procs |-> 0]
  /\ agent = [p \in Procs |-> NoAgent]
  /\ incd = [p \in Procs |-> 0]
  /\ services = [p \in Procs |-> <<>>]
  /\ idx = [p \in Procs |-> 0]
  /\ errs = [p \in Procs |-> <<>>]
  /\ result = [p \in Procs |-> NoResult]
  /\ calls = [p \in Procs |-> 0]
  /\ sent = [p \in Procs |-> <<>>]
  /\ before = [p \in Procs |-> NoSnapshot]
  /\ streak = [a \in Addrs |-> 0]

InitWith(settings, catalogs) ==
  /\ config \in [RequestRetries : settings, AgentFailuresTolerance : settings,
                 IgnoredHealthChecks : IgnoredConfigs]
  /\ agents \in [Addrs -> {0, 1}]
  /\ failures = [a \in Addrs |-> [s \in Slots |-> 0]]
  /\ catalog \in catalogs
  /\ InitLocals
  /\ probe = <<>>

\* All operations, over an empty catalog and few retries.
Init == InitWith(0 .. MaxFew, {{}})

\* The query operations, over a catalog that holds services.
InitQuery == InitWith(Settings, {SampleCatalog})

(***************************************************************************)
(* Returning.                                                              *)
(***************************************************************************)
\* An operation returns res: its frame is gone, its result is with the caller.
Finish(p, res) ==
  /\ pc' = [pc EXCEPT ![p] = "done"]
  /\ result' = [result EXCEPT ![p] = res]
  /\ retry' = [retry EXCEPT ![p] = 0]
  /\ incd' = [incd EXCEPT ![p] = 0]
  /\ services' = [services EXCEPT ![p] = <<>>]
  /\ idx' = [idx EXCEPT ![p] = 0]
  /\ errs' = [errs EXCEPT ![p] = <<>>]

\* The retry wrapper returns res.  GetServices and GetAllServices return it;
\* DeregisterByTask goes on with what findServicesByTaskID found.
WrapperReturns(p, res) ==
  IF op[p].kind = "DeregisterByTask"
  THEN IF res.err # "" THEN Finish(p, [NoResult EXCEPT !.err = res.err])
       ELSE IF Len(res.services) = 0
       THEN Finish(p, [NoResult EXCEPT !.err = "NoMatchingService"])
       ELSE /\ pc' = [pc EXCEPT ![p] = "deregister"]
            /\ services' = [services EXCEPT ![p] = res.services]
            /\ idx' = [idx EXCEPT ![p] = 1]
            /\ errs' = [errs EXCEPT ![p] = <<>>]
            /\ retry' = [retry EXCEPT ![p] = 0]
            /\ incd' = [incd EXCEPT ![p] = 0]
            /\ UNCHANGED result
  ELSE Finish(p, res)

(***************************************************************************)
(* The query operations and the retry wrapper,                             *)
(* getServicesUsingProviderWithRetriesOnAgentFailure.                      *)
(***************************************************************************)
EnterWrapper(p, o) ==
  /\ pc[p] = "idle"
  /\ pc' = [pc EXCEPT ![p] = "loop"]
  /\ op' = [op EXCEPT ![p] = o]
  /\ retry' = [retry EXCEPT ![p] = 0]
  /\ UNCHANGED <<globals, agent, incd, services, idx, errs, result, calls, sent,
                 probe, streak>>

GetServices(p, name) ==
  /\ EnterWrapper(p, [NoOp EXCEPT !.kind = "GetServices", !.arg = name])
  /\ UNCHANGED before

GetAllServices(p) ==
  /\ EnterWrapper(p, [NoOp EXCEPT !.kind = "GetAllServices"])
  /\ UNCHANGED before

DeregisterByTask(p, taskID) ==
  /\ EnterWrapper(p, [NoOp EXCEPT !.kind = "DeregisterByTask", !.arg = taskID])
  /\ before' = [before EXCEPT ![p] =
       [agents |-> agents, failures |-> failures, catalog |-> catalog]]

\* retry++
NextRetry(r) == (r + 1) % UintMod

\* The loop condition with < for <=: one attempt short
LoopTestStrict(r, cfg) == r < cfg.RequestRetries

\* The loop condition
LoopTest(r, cfg) == r <= cfg.RequestRetries

\* An attempt that takes an empty pool for one more failed attempt
AttemptCountingEmptyPool(p) ==
  /\ pc[p] = "loop"
  /\ IF ~LoopTest(retry[p], config)
     THEN /\ WrapperReturns(p, [NoResult EXCEPT !.err = "GivingUp"])
          /\ UNCHANGED agent
     ELSE IF PoolAddrs(agents) = {}
     THEN /\ retry' = [retry EXCEPT ![p] = NextRetry(@)]
          /\ UNCHANGED <<pc, agent, incd, services, idx, errs, result>>
     ELSE \E a \in PoolAddrs(agents) :
            /\ agent' = [agent EXCEPT ![p] = <<a, agents[a]>>]
            /\ pc' = [pc EXCEPT ![p] = "provide"]
            /\ UNCHANGED <<retry, incd, services, idx, errs, result>>
  /\ UNCHANGED <<globals, op, calls, sent, before, probe, streak>>

\* The head of an attempt: the loop condition, then Agents.GetAnyAgent.
Attempt(p) ==
  /\ pc[p] = "loop"
  /\ IF ~LoopTest(retry[p], config)
     THEN /\ WrapperReturns(p, [NoResult EXCEPT !.err = "GivingUp"])
          /\ UNCHANGED agent
     ELSE IF PoolAddrs(agents) = {}
     THEN /\ WrapperReturns(p, [NoResult EXCEPT !.err = "NoAgentsAvailable"])
          /\ UNCHANGED agent
     ELSE \E a \in PoolAddrs(agents) :
            /\ agent' = [agent EXCEPT ![p] = <<a, agents[a]>>]
            /\ pc' = [pc EXCEPT ![p] = "provide"]
            /\ UNCHANGED <<retry, incd, services, idx, errs, result>>
  /\ UNCHANGED <<globals, op, calls, sent, before, probe, streak>>

\* What the provider of operation o returns for the catalog's answers.
ProviderResult(o, cat, dcs, failAt, ord) ==
  CASE o.kind = "GetServices" -> getServicesUsingAgent(o.arg, cat, dcs, failAt)
    [] o.kind = "GetAllServices" -> getAllServices(cat, dcs, failAt, ord)
    [] o.kind = "DeregisterByTask" ->
         findServicesByTaskIDUsingAgent(o.arg, cat, dcs, failAt, ord)

\* The iteration orders of the name -> tags map that matter to operation o
Orders(o) ==
  IF o.kind = "GetServices" THEN {SetToSeq(Names)} ELSE Perms(Names)

\* provide(agent.Client)
Provide(p) ==
  /\ pc[p] = "provide"
  /\ calls[p] < MaxCalls
  /\ \E dcs \in DcListsOf(agent[p][1]), ord \in Orders(op[p]) :
     \E failAt \in 0 .. Len(ProviderResult(op[p], catalog, dcs, 0, ord).queried) :
       LET res == ProviderResult(op[p], catalog, dcs, failAt, ord)
       IN IF res.err
          THEN /\ pc' = [pc EXCEPT ![p] = "inc"]
               /\ UNCHANGED services
          ELSE /\ pc' = [pc EXCEPT ![p] = "clear"]
               /\ services' = [services EXCEPT ![p] = res.services]
  /\ calls' = [calls EXCEPT ![p] = @ + 1]
  /\ UNCHANGED <<globals, op, retry, agent, incd, idx, errs, result, sent, before, probe, streak>>

\* The removal test with >= for >: removes at the tolerance already
TooManyFailuresAtTolerance(n, cfg) == n >= cfg.AgentFailuresTolerance

\* The removal test one failure late: removes above tolerance + 1 only
TooManyFailuresPastTolerance(n, cfg) == n > cfg.AgentFailuresTolerance + 1

\* Whether the agent is to be removed, given IncFailures' return value
TooManyFailures(n, cfg) == n > cfg.AgentFailuresTolerance

\* The provider failed: agent.IncFailures() and the test of its value.  When
\* the agent stays, the attempt is over and its reference is dropped.
IncFailures(p) ==
  /\ pc[p] = "inc"
  /\ LET a == agent[p][1]
         s == agent[p][2]
         n == IncFailuresValue(failures[a][s])
     IN /\ incd' = [incd EXCEPT ![p] = n]
        /\ IF TooManyFailures(n, config)
           THEN /\ pc' = [pc EXCEPT ![p] = "remove"]
                /\ UNCHANGED <<retry, agent>>
           ELSE /\ pc' = [pc EXCEPT ![p] = "loop"]
                /\ retry' = [retry EXCEPT ![p] = NextRetry(@)]
                /\ agent' = [agent EXCEPT ![p] = NoAgent]
        /\ failures' = Collect(agents, agent', [failures EXCEPT ![a][s] = n])
  /\ UNCHANGED <<config, agents, catalog, op, services, idx, errs, result,
                 calls, sent, before, probe, streak>>

\* c.agents.RemoveAgent(agent.IP), then the next attempt
RemoveAgent(p) ==
  /\ pc[p] = "remove"
  /\ agents' = RemoveAgentPool(agents, agent[p][1])
  /\ agent' = [agent EXCEPT ![p] = NoAgent]
  /\ failures' = Collect(agents', agent', failures)
  /\ pc' = [pc EXCEPT ![p] = "loop"]
  /\ retry' = [retry EXCEPT ![p] = NextRetry(@)]
  /\ streak' = [streak EXCEPT ![agent[p][1]] = 0]
  /\ UNCHANGED <<config, catalog, op, incd, services, idx, errs, result,
                 calls, sent, before, probe>>

\* The counter of the record after agent.ClearFailures()
ClearedValue(n) == 0

\* A success that returns the services and leaves the failure count alone
ClearFailuresSkipped(p) ==
  /\ pc[p] = "clear"
  /\ LET a == agent[p][1]
     IN /\ agent' = [agent EXCEPT ![p] = NoAgent]
        /\ failures' = Collect(agents, agent', failures)
        /\ WrapperReturns(p, [NoResult EXCEPT !.services = services[p], !.by = a])
  /\ UNCHANGED <<config, agents, catalog, op, calls, sent, before, probe, streak>>

\* The provider succeeded: agent.ClearFailures(), return services.
ClearFailures(p) ==
  /\ pc[p] = "clear"
  /\ LET a == agent[p][1]
         s == agent[p][2]
     IN /\ agent' = [agent EXCEPT ![p] = NoAgent]
        /\ failures' = Collect(agents, agent',
                          [failures EXCEPT ![a][s] = ClearedValue(@)])
        /\ WrapperReturns(p, [NoResult EXCEPT !.services = services[p], !.by = a])
  /\ UNCHANGED <<config, agents, catalog, op, calls, sent, before, probe, streak>>

(***************************************************************************)
(* Register, Deregister and the batch loops.                               *)
(***************************************************************************)
Register(p, task, app) ==
  /\ pc[p] = "idle"
  /\ op' = [op EXCEPT ![p] = [kind |-> "Register", arg |-> task.ID,
                               intents |-> Len(RegistrationIntents(app, task))]]
  /\ LET tr == marathonTaskToConsulServices(config, task, app)
     IN IF tr.err # "" THEN Finish(p, [NoResult EXCEPT !.err = tr.err])
        ELSE IF tr.services = <<>> THEN Finish(p, MergeErrorsOrNil(<<>>))
        ELSE /\ pc' = [pc EXCEPT ![p] = "register"]
             /\ services' = [services EXCEPT ![p] = tr.services]
             /\ idx' = [idx EXCEPT ![p] = 1]
             /\ errs' = [errs EXCEPT ![p] = <<>>]
             /\ UNCHANGED <<retry, incd, result>>
  /\ UNCHANGED <<globals, agent, calls, sent, before, probe, streak>>

\* A batch loop that stops at the first item that gave an error
NextItemFailFast(p, e) ==
  LET es == IF e = "" THEN errs[p] ELSE Append(errs[p], e)
  IN IF idx[p] < Len(services[p]) /\ e = ""
     THEN /\ idx' = [idx EXCEPT ![p] = @ + 1]
          /\ errs' = [errs EXCEPT ![p] = es]
          /\ UNCHANGED <<pc, services, retry, incd, result>>
     ELSE IF op[p].kind = "Deregister"
     THEN Finish(p, [NoResult EXCEPT !.err = e])
     ELSE Finish(p, MergeErrorsOrNil(es))

\* A batch loop that stays on an item that gave an error, to try it again
NextItemRetrying(p, e) ==
  IF e # ""
  THEN UNCHANGED <<pc, idx, errs, services, retry, incd, result>>
  ELSE IF idx[p] < Len(services[p])
  THEN /\ idx' = [idx EXCEPT ![p] = @ + 1]
       /\ UNCHANGED <<pc, errs, services, retry, incd, result>>
  ELSE IF op[p].kind = "Deregister"
  THEN Finish(p, [NoResult EXCEPT !.err = e])
  ELSE Finish(p, MergeErrorsOrNil(errs[p]))

\* What the batch loop does once item idx[p] gave error e ("" for none)
NextItem(p, e) ==
  LET es == IF e = "" THEN errs[p] ELSE Append(errs[p], e)
  IN IF idx[p] < Len(services[p])
     THEN /\ idx' = [idx EXCEPT ![p] = @ + 1]
          /\ errs' = [errs EXCEPT ![p] = es]
          /\ UNCHANGED <<pc, services, retry, incd, result>>
     ELSE IF op[p].kind = "Deregister"
     THEN Finish(p, [NoResult EXCEPT !.err = e])
     ELSE Finish(p, MergeErrorsOrNil(es))

\* One turn of registerMultipleServices: register(services[idx])
RegisterOne(p) ==
  /\ pc[p] = "register"
  /\ \E connects \in BOOLEAN, accepted \in BOOLEAN :
       LET service == services[p][idx[p]]
           a == service.Address
       IN IF GetAgentErr(agents, a, connects)
          THEN /\ NextItem(p, "ConnectError")
               /\ UNCHANGED <<agents, catalog, sent>>
          ELSE /\ agents' = GetAgentPool(agents, agent, a, connects)
               /\ sent' = [sent EXCEPT ![p] =
                             Append(@, [kind |-> "register", to |-> a,
                                        id |-> service.ID, ok |-> accepted])]
               /\ IF accepted
                  THEN /\ catalog' = ServiceRegister(catalog, a, service)
                       /\ NextItem(p, "")
                  ELSE /\ NextItem(p, "RegisterError")
                       /\ UNCHANGED catalog
  /\ UNCHANGED <<config, failures, op, agent, calls, before, probe, streak>>

Deregister(p, toDeregister) ==
  /\ pc[p] = "idle"
  /\ pc' = [pc EXCEPT ![p] = "deregister"]
  /\ op' = [op EXCEPT ![p] = [NoOp EXCEPT !.kind = "Deregister",
                                          !.arg = toDeregister.ID]]
  /\ services' = [services EXCEPT ![p] = <<toDeregister>>]
  /\ idx' = [idx EXCEPT ![p] = 1]
  /\ UNCHANGED <<globals, retry, agent, incd, errs, result, calls, sent, before, probe, streak>>

\* deregister(services[idx]): Deregister itself, or one turn of
\* deregisterMultipleServices
DeregisterOne(p) ==
  /\ pc[p] = "deregister"
  /\ \E connects \in BOOLEAN, accepted \in BOOLEAN :
       LET toDeregister == services[p][idx[p]]
           a == toDeregister.RegisteringAgentAddress
       IN IF GetAgentErr(agents, a, connects)
          THEN /\ NextItem(p, "ConnectError")
               /\ UNCHANGED <<agents, catalog, sent>>
          ELSE /\ agents' = GetAgentPool(agents, agent, a, connects)
               /\ sent' = [sent EXCEPT ![p] =
                             Append(@, [kind |-> "deregister", to |-> a,
                                        id |-> toDeregister.ID, ok |-> accepted])]
               /\ IF accepted
                  THEN /\ catalog' = ServiceDeregister(catalog, a, toDeregister.ID)
                       /\ NextItem(p, "")
                  ELSE /\ NextItem(p, "DeregisterError")
                       /\ UNCHANGED catalog
  /\ UNCHANGED <<config, failures, op, agent, calls, before, probe, streak>>

AddAgent(p, agentAddress) ==
  /\ pc[p] = "idle"
  /\ op' = [op EXCEPT ![p] = [NoOp EXCEPT !.kind = "AddAgent",
                                          !.arg = agentAddress]]
  /\ \E connects \in BOOLEAN :
       /\ agents' = GetAgentPool(agents, agent, agentAddress, connects)
       /\ Finish(p, [NoResult EXCEPT !.err =
            IF GetAgentErr(agents, agentAddress, connects) THEN "ConnectError"
            ELSE ""])
  /\ UNCHANGED <<config, failures, catalog, agent, calls, sent, before, probe, streak>>

\* The caller has taken the result; it may call again.
Return(p) ==
  /\ pc[p] = "done"
  /\ pc' = [pc EXCEPT ![p] = "idle"]
  /\ op' = [op EXCEPT ![p] = NoOp]
  /\ result' = [result EXCEPT ![p] = NoResult]
  /\ calls' = [calls EXCEPT ![p] = 0]
  /\ sent' = [sent EXCEPT ![p] = <<>>]
  /\ before' = [before EXCEPT ![p] = NoSnapshot]
  /\ UNCHANGED <<globals, retry, agent, incd, services, idx, errs, probe, streak>>

\* Any service a caller may hand to Deregister
KnownServices == {consulServiceToService(e) : e \in catalog} \cup {StaleService}

Step(p) ==
  \/ \E name \in Names : GetServices(p, name)
  \/ GetAllServices(p)
  \/ \E taskID \in TaskIDs : DeregisterByTask(p, taskID)
  \/ Attempt(p)
  \/ Provide(p)
  \/ IncFailures(p)
  \/ RemoveAgent(p)
  \/ ClearFailures(p)
  \/ \E task \in Tasks, app \in Apps : Register(p, task, app)
  \/ RegisterOne(p)
  \/ \E s \in KnownServices : Deregister(p, s)
  \/ DeregisterOne(p)
  \/ \E a \in Addrs : AddAgent(p, a)
  \/ Return(p)

Next == Step(1)

Spec == Init /\ [][Next]_vars

QueryStep(p) ==
  \/ \E name \in Names : GetServices(p, name)
  \/ GetAllServices(p)
  \/ Attempt(p)
  \/ Provide(p)
  \/ IncFailures(p)
  \/ RemoveAgent(p)
  \/ ClearFailures(p)
  \/ \E a \in Addrs : AddAgent(p, a)
  \/ Return(p)

NextQuery == QueryStep(1)

SpecQuery == InitQuery /\ [][NextQuery]_vars

(***************************************************************************)
(* One retry-wrapper call on a fresh pool of three agents.                 *)
(***************************************************************************)
InitScenario ==
  /\ InitWith({n \in Settings : n >= 2}, {SampleCatalog})
  /\ agents = [a \in Addrs |-> 1]

ScenarioStep(p) ==
  \/ \E name \in Names : GetServices(p, name)
  \/ Attempt(p)
  \/ Provide(p)
  \/ IncFailures(p)
  \/ RemoveAgent(p)
  \/ ClearFailures(p)

NextScenario == ScenarioStep(1)

SpecScenario == InitScenario /\ [][NextScenario]_vars

(***************************************************************************)
(* The providers as functions of the catalog's answers.                    *)
(***************************************************************************)
ProviderOps ==
  {[NoOp EXCEPT !.kind = "GetServices", !.arg = n] : n \in Names} \cup
  {[NoOp EXCEPT !.kind = "GetAllServices"]} \cup
  {[NoOp EXCEPT !.kind = "DeregisterByTask", !.arg = t] : t \in TaskIDs}

\* The reads a provider run issues at most: discovery, then per datacenter
\* the listing of the names and one read per name.
MaxReads == 1 + Cardinality(Dcs) * (1 + Cardinality(Names))

InitQuiet ==
  /\ config = [RequestRetries |-> 0, AgentFailuresTolerance |-> 0,
               IgnoredHealthChecks |-> <<>>]
  /\ agents = [a \in Addrs |-> 0]
  /\ failures = [a \in Addrs |-> [s \in Slots |-> 0]]
  /\ catalog = {}
  /\ InitLocals

InitFanout ==
  /\ InitQuiet
  /\ probe \in [o : ProviderOps, cat : {SampleCatalog, {}}, dcs : DcLists,
                failAt : 0 .. MaxReads, ord : Perms(Names), ran : {FALSE},
                out : {Failed(<<>>)}]

RunProvider ==
  /\ ~probe.ran
  /\ probe' = [probe EXCEPT
       !.ran = TRUE,
       !.out = ProviderResult(probe.o, probe.cat, probe.dcs, probe.failAt,
                              probe.ord)]
  /\ UNCHANGED <<globals, locals>>

NextFanout == RunProvider

SpecFanout == InitFanout /\ [][NextFanout]_vars

(***************************************************************************)
(* serviceID as a function of (TaskID, intent name, intent port).          *)
(***************************************************************************)
Ports == {80, 8080}
Triples == [ID : TaskIDs, Name : Names, Port : Ports]

InitServiceID ==
  /\ InitQuiet
  /\ probe \in [a : Triples, b : Triples, ran : {FALSE}, ida : {""}, idb : {""}]

RunServiceID ==
  /\ ~probe.ran
  /\ probe' = [probe EXCEPT
       !.ran = TRUE,
       !.ida = serviceID([ID |-> probe.a.ID], probe.a.Name, probe.a.Port),
       !.idb = serviceID([ID |-> probe.b.ID], probe.b.Name, probe.b.Port)]
  /\ UNCHANGED <<globals, locals>>

NextServiceID == RunServiceID

SpecServiceID == InitServiceID /\ [][NextServiceID]_vars

(***************************************************************************)
(* Properties.                                                             *)
(***************************************************************************)
QueryKinds == {"GetServices", "GetAllServices"}
Returned(p) == pc[p] = "done"

RECURSIVE Count(_, _)
Count(seq, x) ==
  IF seq = <<>> THEN 0
  ELSE (IF Head(seq) = x THEN 1 ELSE 0) + Count(Tail(seq), x)

\* C1: one call of the retry wrapper invokes the provider at most
\* RequestRetries + 1 times, returns the result of the first successful
\* invocation, and invokes the provider no more after that success.
C1_AtMostRetriesPlusOne ==
  /\ [](\A p \in Procs : calls[p] <= config.RequestRetries + 1)
  /\ [][\A p \in Procs :
          pc[p] = "clear" /\ pc'[p] # "clear" =>
            /\ calls'[p] = calls[p]
            /\ pc'[p] \in {"done", "deregister"}
            /\ pc'[p] = "done" =>
                 result'[p].err = "" /\ result'[p].services = services[p]]_vars

\* C2, as claimed: a wrapper call in which every provider invocation failed
\* returns "Giving up" and no other error.
C2_OnlyGivingUp ==
  \A p \in Procs :
    Returned(p) /\ op[p].kind \in QueryKinds /\ calls[p] >= 1
      /\ result[p].err # "" => result[p].err = "GivingUp"

\* C2, amended: a wrapper call in which every provider invocation failed
\* returns "Giving up", after exactly RequestRetries + 1 invocations, or the
\* pool's NoAgentsAvailable error, the pool being empty; never a provider error.
C2_GivingUpOrNoAgents ==
  \A p \in Procs :
    Returned(p) /\ op[p].kind \in QueryKinds /\ result[p].err # "" =>
      \/ /\ result[p].err = "GivingUp"
         /\ calls[p] = config.RequestRetries + 1
      \/ /\ result[p].err = "NoAgentsAvailable"
         /\ PoolAddrs(agents) = {}

\* every invocation of the call failed, an agent was evicted on the way, and
\* the call ended on the empty pool
C2_Witness ==
  \E p \in Procs :
    /\ Returned(p) /\ op[p].kind \in QueryKinds
    /\ result[p].err = "NoAgentsAvailable" /\ calls[p] >= 2

\* C3: the wrapper removes an agent exactly when IncFailures returned more
\* than AgentFailuresTolerance for it; a count at or below the tolerance
\* removes nothing, and no other step of a query operation removes an agent.
C3_RemovedIffOverTolerance ==
  [][/\ \A p \in Procs :
          /\ pc[p] = "inc" /\ pc'[p] # "inc" =>
               /\ agents' = agents
               /\ (incd'[p] > config.AgentFailuresTolerance) <=> (pc'[p] = "remove")
               /\ pc'[p] \in {"remove", "loop"}
          /\ pc[p] = "remove" /\ pc'[p] # "remove" =>
               /\ incd[p] > config.AgentFailuresTolerance
               /\ agents'[agent[p][1]] = 0
     /\ \A a \in Addrs :
          agents[a] # 0 /\ agents'[a] = 0 =>
            \E p \in Procs : /\ pc[p] = "remove" /\ agent[p][1] = a
                             /\ incd[p] > config.AgentFailuresTolerance]_vars

\* an agent has just been removed, and one was kept at exactly the tolerance
C3_Witness ==
  \E p \in Procs :
    /\ pc[p] = "loop" /\ calls[p] >= 2
    /\ incd[p] > config.AgentFailuresTolerance
    /\ \E a \in PoolAddrs(agents) :
         failures[a][agents[a]] = config.AgentFailuresTolerance
           /\ config.AgentFailuresTolerance >= 1

\* What one datacenter contributes to a provider's result when its reads
\* succeed, stated from the catalog's contents.
PerDatacenter(o, cat, dc, ord) ==
  IF o.kind = "GetServices"
  THEN consulServicesToServices(CatalogService(cat, o.arg, Tag, dc))
  ELSE LET tag == IF o.kind = "GetAllServices" THEN Tag
                  ELSE MarathonTaskTag(o.arg)
           tagged == SelectSeq(ord, LAMBDA n :
                       \E e \in cat : /\ e.ServiceName = n /\ DcOf(e.Address) = dc
                                      /\ contains(e.ServiceTags, tag))
       IN Flatten([j \in 1 .. Len(tagged) |->
                     consulServicesToServices(
                       CatalogService(cat, tagged[j], tag, dc))])

\* The datacenter a read is addressed to
ReadDc(read) == IF read[1] = "Services" THEN read[2] ELSE read[4]

Position(seq, x) == CHOOSE i \in 1 .. Len(seq) : seq[i] = x

\* C4: a catalog read through one agent queries the datacenters one after
\* the other in the order discovery returned them; when every read succeeds
\* the result is the datacenters' results concatenated in that order; when
\* discovery or a datacenter's read fails the result is the error with no
\* services, and nothing is read after the failed read.
C4_FanoutInOrderFailFast ==
  probe.ran =>
    LET out == probe.out
        reads == out.queried
        n == Len(reads)
    IN /\ n >= 1 /\ reads[1] = <<"Datacenters">>
       /\ \A i \in 2 .. n : ReadDc(reads[i]) \in Range(probe.dcs)
       /\ \A i, j \in 2 .. n :
            i < j => Position(probe.dcs, ReadDc(reads[i]))
                       <= Position(probe.dcs, ReadDc(reads[j]))
       /\ IF out.err
          THEN /\ out.services = <<>>
               /\ probe.failAt = n
          ELSE /\ out.services =
                    Flatten([i \in 1 .. Len(probe.dcs) |->
                       PerDatacenter(probe.o, probe.cat, probe.dcs[i], probe.ord)])
               /\ \A i \in 1 .. Len(probe.dcs) :
                    \E k \in 2 .. n : ReadDc(reads[k]) = probe.dcs[i]
               /\ probe.failAt \notin 1 .. n

\* the read of the second of two datacenters failed after the first had
\* given services
C4_Witness ==
  /\ probe.ran /\ probe.out.err /\ Len(probe.dcs) = 2
  /\ probe.cat # {} /\ Len(probe.out.queried) >= 2
  /\ ReadDc(probe.out.queried[Len(probe.out.queried)]) = probe.dcs[2]
  /\ PerDatacenter(probe.o, probe.cat, probe.dcs[1], probe.ord) # <<>>

\* C7: the registration ID is a function of (TaskID, intent name, port), and
\* registrations whose triples differ never receive the same ID.
C7_UniqueDeterministicID ==
  probe.ran => ((probe.a = probe.b) <=> (probe.ida = probe.idb))

\* Whether the catalog holds a service carrying the task's identity tag
HoldsTaskTag(cat, taskID) ==
  \E e \in cat : contains(e.ServiceTags, MarathonTaskTag(taskID))

\* C5, as claimed: DeregisterByTask whose lookup succeeds and finds no
\* service fails with NoMatchingService, issues no deregistration, and leaves
\* the catalog and the agent pool, members and failure counts, as they were.
C5_NoMutationAtAll ==
  \A p \in Procs :
    Returned(p) /\ op[p].kind = "DeregisterByTask"
      /\ result[p].err = "NoMatchingService" =>
        /\ sent[p] = <<>>
        /\ catalog = before[p].catalog
        /\ agents = before[p].agents
        /\ failures = before[p].failures

\* C5, amended: DeregisterByTask whose lookup succeeds and finds no service
\* fails with NoMatchingService, issues no deregistration and leaves the
\* catalog as it was (the lookup's attempts may have changed failure counts
\* and evicted agents); a task none of whose services the catalog holds gets
\* this outcome whenever the lookup succeeds.
C5_NoCatalogMutation ==
  \A p \in Procs :
    Returned(p) /\ op[p].kind = "DeregisterByTask" =>
      /\ result[p].err = "NoMatchingService" =>
           sent[p] = <<>> /\ catalog = before[p].catalog
      /\ (~HoldsTaskTag(before[p].catalog, op[p].arg)
            /\ result[p].err \notin {"GivingUp", "NoAgentsAvailable"}) =>
           /\ result[p].err = "NoMatchingService"
           /\ sent[p] = <<>> /\ catalog = before[p].catalog

\* a lookup over a catalog that holds other tasks' services found none for
\* the task, after a failed attempt
C5_Witness ==
  \E p \in Procs :
    /\ Returned(p) /\ op[p].kind = "DeregisterByTask"
    /\ result[p].err = "NoMatchingService"
    /\ catalog # {} /\ calls[p] >= 2

TranslationFailed(p) == result[p].err \in {"AddressResolutionError", "panic"}

\* C6, as claimed: Register of a task with N registration intents submits
\* exactly N registrations, whatever the outcomes.
C6_ExactlyNSubmissions ==
  \A p \in Procs :
    Returned(p) /\ op[p].kind = "Register" => Len(sent[p]) = op[p].intents

\* C6, amended: Register of a task with N registration intents submits one
\* registration for each intent whose agent GetAgent resolved and none for
\* the others, so at most N; it submits none when the translation fails (the
\* host does not resolve, or building the checks aborts).
C6_OneSubmissionPerResolvedIntent ==
  \A p \in Procs :
    Returned(p) /\ op[p].kind = "Register" =>
      /\ \A i \in 1 .. Len(sent[p]) : sent[p][i].kind = "register"
      /\ IF TranslationFailed(p) THEN sent[p] = <<>>
         ELSE Len(sent[p]) + Count(result[p].errs, "ConnectError")
                = op[p].intents

\* two intents, the agent resolved for both, two submissions
C6_Witness ==
  \E p \in Procs :
    /\ Returned(p) /\ op[p].kind = "Register"
    /\ op[p].intents = 2 /\ Len(sent[p]) = 2

\* C8: after a successful translation Register returns success exactly when
\* every registration was submitted and accepted; a failed registration does
\* not keep the later ones from being attempted; the failures are reported
\* together in one aggregate error; Register issues no deregistration.
C8_AllOrAggregateNoRollback ==
  \A p \in Procs :
    Returned(p) /\ op[p].kind = "Register" /\ ~TranslationFailed(p) =>
      LET accepted == {i \in 1 .. Len(sent[p]) : sent[p][i].ok}
      IN /\ (result[p].err = "") <=>
              (Len(sent[p]) = op[p].intents /\ Cardinality(accepted) = Len(sent[p]))
         /\ result[p].err \in {"", "Aggregate"}
         /\ Len(result[p].errs) = op[p].intents - Cardinality(accepted)
         /\ Len(sent[p]) + Count(result[p].errs, "ConnectError") = op[p].intents
         /\ \A i \in 1 .. Len(sent[p]) : sent[p][i].kind = "register"

\* the first registration was refused, the second was still submitted and
\* accepted, and Register returned the aggregate error
C8_Witness ==
  \E p \in Procs :
    /\ Returned(p) /\ op[p].kind = "Register"
    /\ result[p].err = "Aggregate" /\ Len(sent[p]) = 2
    /\ ~sent[p][1].ok /\ sent[p][2].ok

\* The address of the agent an item of a batch is to be sent to
ItemAddress(p) ==
  IF pc[p] = "register" THEN services[p][idx[p]].Address
  ELSE services[p][idx[p]].RegisteringAgentAddress

\* C9: Register, Deregister and DeregisterByTask make at most one mutation
\* attempt per item, addressed to the agent at the item's own address, and
\* after a failed attempt go on to the next item or return: no second
\* attempt for the item, to that or to another agent.
C9_OneTargetedAttemptPerItem ==
  [][\A p \in Procs :
       /\ sent'[p] # sent[p] /\ sent'[p] # <<>> =>
            /\ pc[p] \in {"register", "deregister"}
            /\ Len(sent'[p]) = Len(sent[p]) + 1
            /\ SubSeq(sent'[p], 1, Len(sent[p])) = sent[p]
            /\ sent'[p][Len(sent'[p])].to = ItemAddress(p)
            /\ sent'[p][Len(sent'[p])].id = services[p][idx[p]].ID
            /\ sent'[p][Len(sent'[p])].kind = pc[p]
       /\ (pc[p] \in {"register", "deregister"}
             /\ <<pc[p], idx[p], errs[p], sent[p]>>
                  # <<pc'[p], idx'[p], errs'[p], sent'[p]>>) =>
            \/ pc'[p] = "done"
            \/ pc'[p] = pc[p] /\ idx'[p] = idx[p] + 1
                /\ services'[p] = services[p]]_vars

\* a submission was refused and the operation returned without another one
C9_Witness ==
  \E p \in Procs :
    /\ Returned(p) /\ op[p].kind \in {"Register", "Deregister", "DeregisterByTask"}
    /\ Len(sent[p]) = 1 /\ ~sent[p][1].ok

\* C10: on a pool of three agents with zero failure counts, RequestRetries
\* >= 2 and AgentFailuresTolerance >= 2, a GetServices call whose first two
\* provider invocations fail and whose third succeeds returns what the third
\* attempt's agent gave; each of the two failures added one to the count of
\* the agent it used; no agent was removed.
C10_TwoFailuresThenSuccess ==
  /\ [](\A p \in Procs :
          Returned(p) /\ calls[p] = 3 /\ result[p].err = "" =>
            /\ PoolAddrs(agents) = Addrs
            /\ result[p].by \in Addrs
            /\ result[p].services \in
                 {getServicesUsingAgent(op[p].arg, catalog, dcs, 0).services :
                    dcs \in DcListsOf(result[p].by)}
            /\ \A a \in Addrs : failures[a][agents[a]] <= 2)
  /\ [][\A p \in Procs :
          pc[p] = "inc" /\ pc'[p] # "inc" /\ calls[p] <= 2 =>
            /\ failures'[agent[p][1]][agent[p][2]]
                 = failures[agent[p][1]][agent[p][2]] + 1
            /\ \A a \in Addrs, s \in Slots :
                 <<a, s>> # agent[p] => failures'[a][s] = failures[a][s]
            /\ agents' = agents /\ pc'[p] = "loop"]_vars

\* two different agents failed once each and a third one answered
C10_Witness ==
  \E p \in Procs :
    /\ Returned(p) /\ calls[p] = 3 /\ result[p].err = ""
    /\ \E a, b \in Addrs \ {result[p].by} :
         a # b /\ failures[a][1] = 1 /\ failures[b][1] = 1

(***************************************************************************)
(* marathonToConsulChecks as a function of the configured ignore list, the *)
(* task's ports and the app's health checks.                               *)
(***************************************************************************)
\* IgnoredHealthChecks values: none, and three spellings of "TCP and COMMAND"
IgnoreNone == <<>>
IgnoreBoth ==
  {<<"t", "c", "p", ",", " ", "c", "o", "m", "m", "a", "n", "d">>,
   <<"T", "C", "P", ",", "C", "O", "M", "M", "A", "N", "D">>,
   <<" ", "C", "o", "m", "m", "a", "n", "d", " ", ",", ",", "t", "C", "p", " ">>}

CheckProtocols == {"HTTP", "HTTPS", "TCP", "COMMAND", "tcp", "command", "FOO"}
CheckPaths == {"/health", "no path"}
CheckPorts == {0, 9000}
CheckPortIndexes == {0, 1}
HealthChecks ==
  {c \in [Protocol : CheckProtocols, Path : CheckPaths, Port : CheckPorts,
          PortIndex : CheckPortIndexes, IntervalSeconds : {10},
          TimeoutSeconds : {5}, Command : {"run"}] :
     c.Protocol \in {"HTTP", "HTTPS"} \/ c.Path = "/health"}
\* Most health checks of one app
MaxChecks == 2
CheckLists == UNION {[1 .. n -> HealthChecks] : n \in 0 .. MaxChecks}
CheckTasks ==
  {[ID |-> "t", Host |-> "host1", Ports |-> <<>>],
   [ID |-> "t", Host |-> "host1", Ports |-> <<8080>>]}
CheckAddress == "10.0.0.1"

ChecksConfig(ignored) ==
  [RequestRetries |-> 0, AgentFailuresTolerance |-> 0,
   IgnoredHealthChecks |-> ignored]

InitChecks ==
  /\ InitQuiet
  /\ probe \in [ignored : {IgnoreNone} \cup IgnoreBoth, task : CheckTasks,
                healthChecks : CheckLists, ran : {FALSE},
                out : {[panic |-> FALSE, checks |-> <<>>]}]

RunChecks ==
  /\ ~probe.ran
  /\ probe' = [probe EXCEPT
       !.ran = TRUE,
       !.out = marathonToConsulChecks(ChecksConfig(probe.ignored), probe.task,
                                      probe.healthChecks, CheckAddress)]
  /\ UNCHANGED <<globals, locals>>

NextChecks == RunChecks

SpecChecks == InitChecks /\ [][NextChecks]_vars

\* C11: building the health checks never aborts: for every task and every
\* list of health checks marathonToConsulChecks completes (and Register goes
\* on with the checks that were built).
C11_ChecksNeverAbort == probe.ran => ~probe.out.panic

\* Whether the check built is a TCP or a script check
TcpOrScript(built) == built.TCP # "" \/ built.Script # ""

\* Whether the health check's protocol is TCP or COMMAND in some letter case
NamesTcpOrCommand(check) ==
  check.Protocol \in {"TCP", "tcp", "COMMAND", "command"}

\* C12: with an ignore list naming TCP and COMMAND (any letter case, spaces
\* around the names) no TCP or COMMAND check is built, whatever the letter
\* case of the health check's Protocol, and the health checks of the other
\* protocols come out as they do when they are the only ones of the app.
C12_IgnoredNeverBuiltOthersUnaffected ==
  (probe.ran /\ probe.ignored \in IgnoreBoth) =>
    /\ \A i \in 1 .. Len(probe.out.checks) : ~TcpOrScript(probe.out.checks[i])
    /\ probe.out.checks =
         marathonToConsulChecks(ChecksConfig(IgnoreNone), probe.task,
           SelectSeq(probe.healthChecks, LAMBDA c : ~NamesTcpOrCommand(c)),
           CheckAddress).checks

\* Whether the effective port of the health check exists
HasEffectivePort(check, task) ==
  check.Port # 0 \/ check.PortIndex + 1 \in 1 .. Len(task.Ports)

EffectivePort(check, task) ==
  IF check.Port # 0 THEN check.Port ELSE task.Ports[check.PortIndex + 1]

\* The checks the mapping by protocol gives for one health check
MappedChecks(check, task, address) ==
  LET common == [Interval |-> "10s", Timeout |-> "5s", Status |-> "passing",
                 HTTP |-> "", TCP |-> "", Script |-> ""]
      host == address \o ":" \o Dec(EffectivePort(check, task))
  IN CASE check.Protocol \in {"HTTP", "HTTPS"} /\ check.Path = "/health" ->
            <<[common EXCEPT !.HTTP =
                 (IF check.Protocol = "HTTP" THEN "http://" ELSE "https://")
                 \o host \o "/health"]>>
       [] check.Protocol = "TCP" -> <<[common EXCEPT !.TCP = host]>>
       [] check.Protocol = "COMMAND" -> <<[common EXCEPT !.Script = "run"]>>
       [] OTHER -> <<>>

\* C14: with nothing ignored, every health check is mapped by its protocol:
\* an HTTP / HTTPS check with a parsable path to one HTTP check at
\* <lowercased protocol>://<address>:<effective port><path>, a TCP check to
\* one TCP check at <address>:<effective port>, a COMMAND check to one script
\* check with the configured command, any other protocol to no check; every
\* check built has status "passing" and the check's interval and timeout.
C14_MappingByProtocol ==
  (/\ probe.ran
   /\ probe.ignored = IgnoreNone
   /\ \A i \in 1 .. Len(probe.healthChecks) :
        probe.healthChecks[i].Protocol \in {"HTTP", "HTTPS", "TCP"}
          => HasEffectivePort(probe.healthChecks[i], probe.task)) =>
    /\ ~probe.out.panic
    /\ probe.out.checks =
         Flatten([i \in 1 .. Len(probe.healthChecks) |->
                    MappedChecks(probe.healthChecks[i], probe.task, CheckAddress)])

\* The parts of C12 and C14 that hold: whenever every port lookup the code
\* makes finds its port, the checks are built as C12 and C14 say.
ChecksMappedWhenPortsExist ==
  (/\ probe.ran
   /\ \A i \in 1 .. Len(probe.healthChecks) :
        HasEffectivePort(probe.healthChecks[i], probe.task)) =>
    /\ C12_IgnoredNeverBuiltOthersUnaffected
    /\ C14_MappingByProtocol
    /\ C11_ChecksNeverAbort

\* Under the ignore list no TCP or script check is built, in any run.
IgnoredNeverBuilt ==
  (probe.ran /\ probe.ignored \in IgnoreBoth) =>
    \A i \in 1 .. Len(probe.out.checks) : ~TcpOrScript(probe.out.checks[i])

\* The input on which C12 fails: under the ignore list, a lower-case "tcp"
\* check whose port index is outside Ports, followed by an HTTP check with a
\* port of its own.
LowerCaseTcpThenHttp ==
  /\ probe.ran
  /\ probe.ignored \in IgnoreBoth
  /\ probe.task.Ports = <<>>
  /\ Len(probe.healthChecks) = 2
  /\ probe.healthChecks[1].Protocol = "tcp"
  /\ probe.healthChecks[1].Port = 0
  /\ probe.healthChecks[2].Protocol = "HTTP"
  /\ probe.healthChecks[2].Port = 9000
  /\ probe.healthChecks[2].Path = "/health"

\* On that input no check at all is built.
LowerCaseTcpLosesHttp == LowerCaseTcpThenHttp => probe.out.checks # <<>>

(***************************************************************************)
(* The providers over catalogs whose entries the program did not write.    *)
(***************************************************************************)
\* A catalog in which one entry of service "b" comes without a node address
AddresslessCatalog ==
  SampleCatalog \cup
  {[ServiceID |-> "x_b_80", ServiceName |-> "b",
    ServiceTags |-> <<Tag, MarathonTaskTag("t")>>, Address |-> ""]}

InitResponses ==
  /\ InitQuiet
  /\ probe \in [o : ProviderOps, cat : {SampleCatalog, AddresslessCatalog},
                dcs : DcLists, failAt : 0 .. MaxReads, ord : Perms(Names),
                ran : {FALSE}, out : {Failed(<<>>)}]

SpecResponses == InitResponses /\ [][NextFanout]_vars

\* C13: every Service that GetServices, GetAllServices or the lookup by task
\* returns has a non-empty RegisteringAgentAddress, whatever entries the
\* catalog answers with.
C13_ReturnedHaveAgentAddress ==
  (probe.ran /\ ~probe.out.err) =>
    \A i \in 1 .. Len(probe.out.services) :
      probe.out.services[i].RegisteringAgentAddress # ""

\* The part of C13 that holds: the address returned is the entry's address.
ReturnedAddressIsEntryAddress ==
  (probe.ran /\ ~probe.out.err) =>
    \A i \in 1 .. Len(probe.out.services) :
      \E e \in probe.cat :
        /\ e.ServiceID = probe.out.services[i].ID
        /\ e.Address = probe.out.services[i].RegisteringAgentAddress

\* Whether the step is one of caller p
Moved(p) ==
  <<pc[p], retry[p], agent[p], incd[p], calls[p], result[p]>>' #
  <<pc[p], retry[p], agent[p], incd[p], calls[p], result[p]>>

\* C15: an attempt of the retry wrapper that finds the pool empty returns
\* NoAgentsAvailable at once: it does not invoke the provider, it is the last
\* attempt of the call, and it changes no failure counter and no pool member.
C15_EmptyPoolFailsFast ==
  [][\A p \in Procs :
       (/\ pc[p] = "loop"
        /\ LoopTest(retry[p], config)
        /\ PoolAddrs(agents) = {}
        /\ Moved(p)) =>
         /\ pc'[p] = "done"
         /\ result'[p].err = "NoAgentsAvailable"
         /\ calls'[p] = calls[p]
         /\ failures' = failures
         /\ agents' = agents]_vars

\* A call returned NoAgentsAvailable on a later attempt, after its earlier
\* attempts had failed and the agents they used were evicted.
C15_Witness ==
  \E p \in Procs :
    /\ pc[p] = "done"
    /\ op[p].kind \in QueryKinds \cup {"DeregisterByTask"}
    /\ result[p].err = "NoAgentsAvailable"
    /\ calls[p] >= 1
    /\ PoolAddrs(agents) = {}

(***************************************************************************)
(* One retry-wrapper call run to its end, each step of it taken in time:   *)
(* every provider invocation returns, and the caller keeps running.        *)
(***************************************************************************)
\* provide(agent.Client), with no tally of the invocations kept
ProvideUntallied(p) ==
  /\ pc[p] = "provide"
  /\ \E dcs \in DcListsOf(agent[p][1]), ord \in Orders(op[p]) :
     \E failAt \in 0 .. Len(ProviderResult(op[p], catalog, dcs, 0, ord).queried) :
       LET res == ProviderResult(op[p], catalog, dcs, failAt, ord)
       IN IF res.err
          THEN /\ pc' = [pc EXCEPT ![p] = "inc"]
               /\ UNCHANGED services
          ELSE /\ pc' = [pc EXCEPT ![p] = "clear"]
               /\ services' = [services EXCEPT ![p] = res.services]
  /\ UNCHANGED <<globals, op, retry, agent, incd, idx, errs, result, calls, sent,
                 before, probe, streak>>

TerminationStep(p) ==
  \/ \E name \in Names : GetServices(p, name)
  \/ Attempt(p)
  \/ ProvideUntallied(p)
  \/ IncFailures(p)
  \/ RemoveAgent(p)
  \/ ClearFailures(p)

NextTermination == TerminationStep(1)

SpecTermination ==
  InitQuery /\ [][NextTermination]_vars /\ WF_vars(NextTermination)

\* C16: every retry-wrapper call returns, for every RequestRetries, the
\* largest representable value included.
C16_WrapperTerminates ==
  \A p \in Procs : (pc[p] = "loop") ~> (pc[p] = "done")

\* The part of C16 that holds: with RequestRetries below the largest
\* representable value every call returns.
TerminatesBelowLargest ==
  \A p \in Procs :
    (pc[p] = "loop" /\ config.RequestRetries < UintMax) ~> (pc[p] = "done")

(***************************************************************************)
(* Sequential histories of queries, with a tally of the failed invocations *)
(* against each agent since the last successful one against it.            *)
(***************************************************************************)
\* The tally after one more invocation; it stops counting above every
\* tolerance.
Tally(n, failed) ==
  IF ~failed THEN 0 ELSE IF n < UintMod THEN n + 1 ELSE n

\* provide(agent.Client), tallied
ProvideTallied(p) ==
  /\ pc[p] = "provide"
  /\ calls[p] < MaxCalls
  /\ \E dcs \in DcListsOf(agent[p][1]), ord \in Orders(op[p]) :
     \E failAt \in 0 .. Len(ProviderResult(op[p], catalog, dcs, 0, ord).queried) :
       LET res == ProviderResult(op[p], catalog, dcs, failAt, ord)
       IN /\ IF res.err
             THEN /\ pc' = [pc EXCEPT ![p] = "inc"]
                  /\ UNCHANGED services
             ELSE /\ pc' = [pc EXCEPT ![p] = "clear"]
                  /\ services' = [services EXCEPT ![p] = res.services]
          /\ streak' = [streak EXCEPT ![agent[p][1]] = Tally(@, res.err)]
  /\ calls' = [calls EXCEPT ![p] = @ + 1]
  /\ UNCHANGED <<globals, op, retry, agent, incd, idx, errs, result, sent, before,
                 probe>>

\* Every tolerance; the retries below the largest representable value.
InitStreak ==
  /\ InitWith(Settings, {SampleCatalog})
  /\ config.RequestRetries <= MaxSetting

StreakStep(p) ==
  \/ \E name \in Names : GetServices(p, name)
  \/ Attempt(p)
  \/ ProvideTallied(p)
  \/ IncFailures(p)
  \/ RemoveAgent(p)
  \/ ClearFailures(p)
  \/ \E a \in Addrs : AddAgent(p, a)
  \/ Return(p)

NextStreak == StreakStep(1)

SpecStreak == InitStreak /\ [][NextStreak]_vars

\* C17: a successful provider invocation resets the failure count of the
\* agent that served it to zero, and an agent is evicted only after more
\* than AgentFailuresTolerance failed invocations against it with no
\* successful invocation against it in between.
C17_EvictedOnlyAfterStreak ==
  [][\A p \in Procs :
       /\ (pc[p] = "clear" /\ Moved(p)) =>
            /\ agents'[agent[p][1]] = agent[p][2]
            /\ failures'[agent[p][1]][agent[p][2]] = 0
       /\ (pc[p] = "remove" /\ Moved(p)) =>
            /\ agents[agent[p][1]] = agent[p][2]
            /\ agents'[agent[p][1]] = 0
            /\ streak[agent[p][1]] > config.AgentFailuresTolerance]_vars

\* An agent is evicted whose failures, counted since a success against it,
\* exceed a tolerance of one or more, in a call after that success.
C17_Witness ==
  \E p \in Procs :
    /\ pc[p] = "remove"
    /\ config.AgentFailuresTolerance >= 1
    /\ streak[agent[p][1]] = config.AgentFailuresTolerance + 1
    /\ calls[p] < streak[agent[p][1]]

(***************************************************************************)
(* Concurrent callers: every step of either caller may come next.          *)
(***************************************************************************)
ConcurrentTask == [ID |-> "t", Host |-> "host1", Ports |-> <<8080>>]
ConcurrentApp == [Intents |-> <<IntentB>>, HealthChecks |-> <<>>]

ConcurrentStep(p) ==
  \/ GetServices(p, "b")
  \/ Attempt(p)
  \/ ProvideUntallied(p)
  \/ IncFailures(p)
  \/ RemoveAgent(p)
  \/ ClearFailures(p)
  \/ Register(p, ConcurrentTask, ConcurrentApp)
  \/ RegisterOne(p)
  \/ Deregister(p, StaleService)
  \/ DeregisterOne(p)
  \/ AddAgent(p, "10.0.0.1")
  \/ Return(p)

NextConcurrent == \E p \in Procs : ConcurrentStep(p)

\* A pool of the two agents of one datacenter, and calls of one attempt each:
\* the attempts of one call act on the pool as those of successive calls do.
InitConcurrent ==
  /\ Init
  /\ PoolAddrs(agents) = {"10.0.0.1", "10.0.0.2"}
  /\ config.RequestRetries = 0

SpecConcurrent == InitConcurrent /\ [][NextConcurrent]_vars

\* C18: under every interleaving, the record that RemoveAgent(address) takes
\* out of the pool is the record the evicting call holds, the one whose
\* failure count exceeded the tolerance; a record re-created for the address
\* in the meantime is not removed.
C18_EvictsOnlyOwnRecord ==
  [][\A p \in Procs :
       (pc[p] = "remove" /\ Moved(p) /\ agents[agent[p][1]] # 0) =>
         agents[agent[p][1]] = agent[p][2]]_vars

\* C19: whenever no retry-wrapper call stands between its IncFailures and
\* its RemoveAgent, every agent in the pool has a failure count of at most
\* AgentFailuresTolerance, under every interleaving of queries, registers,
\* deregisters and added agents.
C19_PoolWithinTolerance ==
  (\A p \in Procs : pc[p] # "remove") =>
    \A a \in PoolAddrs(agents) :
      failures[a][agents[a]] <= config.AgentFailuresTolerance

\* Both callers are inside the retry wrapper holding the same agent of the
\* pool, whose failure count stands at a tolerance of one or more.
C19_Witness ==
  /\ \A p \in Procs : pc[p] \in {"provide", "inc"}
  /\ agent[1] = agent[2]
  /\ agents[agent[1][1]] = agent[1][2]
  /\ config.AgentFailuresTolerance >= 1
  /\ failures[agent[1][1]][agent[1][2]] = config.AgentFailuresTolerance

(***************************************************************************)
(* Register(task, app) followed, once it has succeeded, by                 *)
(* DeregisterByTask(task.ID); probe keeps the catalog as Register found it.*)
(***************************************************************************)
RoundTripTask == [ID |-> "t", Host |-> "host1", Ports |-> <<8080>>]
RoundTripApps ==
  {[Intents |-> <<IntentB>>, HealthChecks |-> <<>>],
   [Intents |-> <<IntentB, IntentAB>>, HealthChecks |-> <<>>]}

\* The catalog after task "t_a" was registered with intent "b" from host
RegisteredOther(host) ==
  LET other == [ID |-> "t_a", Host |-> host, Ports |-> <<>>]
      regs == marathonTaskToConsulServices(
                [RequestRetries |-> 0, AgentFailuresTolerance |-> 0,
                 IgnoredHealthChecks |-> <<>>],
                other, [Intents |-> <<IntentB>>, HealthChecks |-> <<>>])
  IN RegisterAll({}, HostToIPv4(host).IP, regs.services)

InitRoundTrip ==
  /\ config \in [RequestRetries : 0 .. MaxFew,
                 AgentFailuresTolerance : 0 .. MaxFew,
                 IgnoredHealthChecks : IgnoredConfigs]
  /\ agents \in [Addrs -> {0, 1}]
  /\ failures = [a \in Addrs |-> [s \in Slots |-> 0]]
  /\ catalog \in {{}, RegisteredOther("host1"), RegisteredOther("host3")}
  /\ InitLocals
  /\ probe = [cat |-> catalog]

\* Register has returned success; the caller goes on to DeregisterByTask of
\* the same task.
ThenDeregisterByTask(p) ==
  /\ pc[p] = "done"
  /\ op[p].kind = "Register"
  /\ op[p].intents >= 1
  /\ result[p].err = ""
  /\ pc' = [pc EXCEPT ![p] = "loop"]
  /\ op' = [op EXCEPT ![p] = [NoOp EXCEPT !.kind = "DeregisterByTask",
                                          !.arg = op[p].arg]]
  /\ retry' = [retry EXCEPT ![p] = 0]
  /\ result' = [result EXCEPT ![p] = NoResult]
  /\ calls' = [calls EXCEPT ![p] = 0]
  /\ before' = [before EXCEPT ![p] =
       [agents |-> agents, failures |-> failures, catalog |-> catalog]]
  /\ UNCHANGED <<globals, agent, incd, services, idx, errs, sent, probe, streak>>

RoundTripStep(p) ==
  \/ \E app \in RoundTripApps : Register(p, RoundTripTask, app)
  \/ RegisterOne(p)
  \/ ThenDeregisterByTask(p)
  \/ Attempt(p)
  \/ Provide(p)
  \/ IncFailures(p)
  \/ RemoveAgent(p)
  \/ ClearFailures(p)
  \/ DeregisterOne(p)

NextRoundTrip == RoundTripStep(1)

SpecRoundTrip == InitRoundTrip /\ [][NextRoundTrip]_vars

\* Whether the round trip of caller p is over, both halves having succeeded
RoundTripDone(p) ==
  /\ pc[p] = "done"
  /\ op[p].kind = "DeregisterByTask"
  /\ result[p].err = ""

\* C20: after Register(task, app) has succeeded for all intents and
\* DeregisterByTask(task.ID) has then succeeded, the catalog holds no service
\* tagged marathon-task:<task.ID>, every deregistration went to the agent
\* address its registration was submitted to, and the services registered
\* for other tasks are still in the catalog.
C20_RoundTrip ==
  \A p \in Procs : RoundTripDone(p) =>
    /\ ~HoldsTaskTag(catalog, op[p].arg)
    /\ \A i \in 1 .. Len(sent[p]) :
         sent[p][i].kind = "deregister" =>
           \E j \in 1 .. i - 1 :
             /\ sent[p][j].kind = "register"
             /\ sent[p][j].id = sent[p][i].id
             /\ sent[p][j].to = sent[p][i].to
    /\ \A e \in probe.cat :
         ~contains(e.ServiceTags, MarathonTaskTag(op[p].arg)) => e \in catalog

\* Whether Register wrote over an entry of another task: same ID, same agent
Overwrote(p) ==
  \E i \in 1 .. Len(sent[p]) : \E e \in probe.cat :
    /\ sent[p][i].kind = "register"
    /\ sent[p][i].id = e.ServiceID
    /\ sent[p][i].to = e.Address

\* The part of C20 that holds: the round trip is as claimed whenever no
\* registration wrote over another task's entry.
RoundTripWithoutOverwrite ==
  (\A p \in Procs : ~Overwrote(p)) => C20_RoundTrip

\* A round trip that is over, with another task's service in the catalog
RoundTripOverOther ==
  \E p \in Procs :
    RoundTripDone(p) /\ ~Overwrote(p) /\ catalog # {} /\ Len(sent[p]) = 4
====
